---- MODULE Spec2Model ----
(***************************************************************************)
(* Currency swap form (src/src/components/currency-selector.tsx): the feed *)
(* reduction getLatestTokenPrices, the amount input filter, the recompute  *)
(* effect and the App component's state, handlers and fetch.               *)
(*                                                                         *)
(* Texts the user types or sees (fromAmount, toAmount) are sequences of    *)
(* one-character strings, so that parsing and formatting are computed.     *)
(* Numbers are exact fractions n/d in lowest terms with d > 0; d = 0 holds *)
(* the IEEE specials: 0/0 is NaN, 1/0 is Infinity, -1/0 is -Infinity.      *)
(* Rounding of binary doubles is not modelled.                             *)
(***************************************************************************)
EXTENDS Integers, Sequences, FiniteSets, TLC

VARIABLES
    pc,                  \* position of fetchData: "fetch", "json", "done"
    availableCurrencies, \* useState<CurrencyPrice[]>
    loading,             \* useState<boolean>
    fetchError,          \* useState<string | null>: <<>> is null, <<s>> a string
    fromCurrency,        \* useState<string>
    toCurrency,          \* useState<string>
    fromAmount,          \* useState<string>, a text
    toAmount,            \* useState<string>, a text
    exchangeRate,        \* useState<number | null>
    error,               \* useState<string>
    effectPending,       \* the recompute effect is scheduled (a dependency changed)
    data,                \* history: the feed body handed to getLatestTokenPrices
    lastEdit,            \* history: the last change event of the amount input
    swapLog              \* history: the currency pairs before the last swaps

vars == <<pc, availableCurrencies, loading, fetchError, fromCurrency, toCurrency,
          fromAmount, toAmount, exchangeRate, error, effectPending,
          data, lastEdit, swapLog>>

\* ------------------------------------------------------------------ bounds
MaxFeedLen == 3
MaxNormLen == 3
MaxTypedLen == 2
MaxTextLen == 3

SeqsUpTo(S, n) == UNION {[1..k -> S] : k \in 0..n}

\* ----------------------------------------------------------------- numbers
RECURSIVE Gcd(_, _)
Gcd(a, b) == IF b = 0 THEN a ELSE Gcd(b, a % b)

Abs(n) == IF n < 0 THEN -n ELSE n
Sign(n) == IF n < 0 THEN -1 ELSE IF n > 0 THEN 1 ELSE 0

RECURSIVE Pow10(_)
Pow10(k) == IF k = 0 THEN 1 ELSE 10 * Pow10(k - 1)

\* The number n/d (d >= 0) in lowest terms; d = 0 gives NaN or an infinity.
Num(n, d) ==
    IF d = 0 THEN [k |-> IF n = 0 THEN "nan" ELSE "inf", n |-> Sign(n), d |-> 0]
    ELSE LET g == Gcd(Abs(n), d) IN [k |-> "fin", n |-> n \div g, d |-> d \div g]

NaN == Num(0, 0)
Null == [k |-> "null", n |-> 0, d |-> 0]

\* JavaScript's isNaN on a number.
isNaN(x) == x.k = "nan"

\* JavaScript's x > 0.
GreaterThanZero(x) == x.k # "nan" /\ x.n > 0

\* Mutation of Div: the operands exchanged (b / a).
DivSwapped(a, b) ==
    IF a.k = "nan" \/ b.k = "nan" THEN NaN
    ELSE IF a.k = "inf" THEN (IF b.k = "inf" THEN NaN ELSE Num(0, 1))
    ELSE IF b.k = "inf" THEN Num(b.n * (IF a.n < 0 THEN -1 ELSE 1), 0)
    ELSE IF a.n = 0 THEN Num(b.n, 0)
    ELSE Num(b.n * a.d * Sign(a.n), b.d * Abs(a.n))

\* JavaScript's a / b on numbers.
Div(a, b) ==
    IF a.k = "nan" \/ b.k = "nan" THEN NaN
    ELSE IF a.k = "inf" THEN (IF b.k = "inf" THEN NaN
                              ELSE Num(a.n * (IF b.n < 0 THEN -1 ELSE 1), 0))
    ELSE IF b.k = "inf" THEN Num(0, 1)
    ELSE IF b.n = 0 THEN Num(a.n, 0)
    ELSE Num(a.n * b.d * Sign(b.n), a.d * Abs(b.n))

\* JavaScript's a * b on numbers.
Mul(a, b) ==
    IF a.k = "nan" \/ b.k = "nan" THEN NaN
    ELSE IF a.k = "inf" \/ b.k = "inf" THEN Num(Sign(a.n) * Sign(b.n), 0)
    ELSE Num(a.n * b.n, a.d * b.d)

\* ------------------------------------------------------------------- texts
Digits == {"0", "1", "2", "3", "4", "5", "6", "7", "8", "9"}

DigitVal(c) ==
    CASE c = "0" -> 0 [] c = "1" -> 1 [] c = "2" -> 2 [] c = "3" -> 3
      [] c = "4" -> 4 [] c = "5" -> 5 [] c = "6" -> 6 [] c = "7" -> 7
      [] c = "8" -> 8 [] c = "9" -> 9

DigitChar(v) ==
    CASE v = 0 -> "0" [] v = 1 -> "1" [] v = 2 -> "2" [] v = 3 -> "3"
      [] v = 4 -> "4" [] v = 5 -> "5" [] v = 6 -> "6" [] v = 7 -> "7"
      [] v = 8 -> "8" [] v = 9 -> "9"

\* The number of digits of s from position i on (what \d* consumes there).
RECURSIVE CountDigits(_, _)
CountDigits(s, i) ==
    IF i <= Len(s) /\ s[i] \in Digits THEN 1 + CountDigits(s, i + 1) ELSE 0

\* The value of a sequence of digits.
RECURSIVE DigitsValue(_)
DigitsValue(s) ==
    IF s = <<>> THEN 0
    ELSE 10 * DigitsValue(SubSeq(s, 1, Len(s) - 1)) + DigitVal(s[Len(s)])

\* JavaScript's parseFloat on a text without white space, exponent or the
\* word Infinity: an optional sign, digits, an optional point and digits; the
\* longest such prefix is the number, and NaN when it holds no digit.
parseFloat(s) ==
    LET signed == Len(s) >= 1 /\ s[1] \in {"-", "+"}
        start == IF signed THEN 2 ELSE 1
        n1 == CountDigits(s, start)
        dot == start + n1
        hasDot == dot <= Len(s) /\ s[dot] = "."
        n2 == IF hasDot THEN CountDigits(s, dot + 1) ELSE 0
        mantissa == DigitsValue(SubSeq(s, start, dot - 1)
                                \o SubSeq(s, dot + 1, dot + n2))
    IN  IF n1 + n2 = 0 THEN NaN
        ELSE Num((IF signed /\ s[1] = "-" THEN -1 ELSE 1) * mantissa, Pow10(n2))

\* The decimal digits of a natural number.
RECURSIVE NatToText(_)
NatToText(n) ==
    IF n < 10 THEN <<DigitChar(n)>>
    ELSE NatToText(n \div 10) \o <<DigitChar(n % 10)>>

\* The last k decimal digits of n, with leading zeros.
RECURSIVE PadDigits(_, _)
PadDigits(n, k) ==
    IF k = 0 THEN <<>> ELSE PadDigits(n \div 10, k - 1) \o <<DigitChar(n % 10)>>

\* Long division: <<the first k fraction digits of r/d as a number, the remainder>>.
RECURSIVE FracDigits(_, _, _)
FracDigits(r, d, k) ==
    IF k = 0 THEN <<0, r>>
    ELSE LET rest == FracDigits((10 * r) % d, d, k - 1)
         IN  <<((10 * r) \div d) * Pow10(k - 1) + rest[1], rest[2]>>

\* JavaScript's Number.prototype.toFixed(f), f >= 1, for |x| < 10^21: the
\* nearest multiple of 10^-f, the larger one of two equally near.
toFixed(x, f) ==
    IF x.k = "nan" THEN <<"N", "a", "N">>
    ELSE IF x.k = "inf"
    THEN (IF x.n < 0 THEN <<"-">> ELSE <<>>) \o <<"I", "n", "f", "i", "n", "i", "t", "y">>
    ELSE LET a == Abs(x.n)
             whole == a \div x.d
             fd == FracDigits(a % x.d, x.d, f)
             up == 2 * fd[2] >= x.d
             frac == IF up THEN fd[1] + 1 ELSE fd[1]
             carry == frac = Pow10(f)
         IN  (IF x.n < 0 THEN <<"-">> ELSE <<>>)
             \o NatToText(IF carry THEN whole + 1 ELSE whole)
             \o <<".">>
             \o PadDigits(IF carry THEN 0 ELSE frac, f)

\* -------------------------------------------------------------------- feed
Currencies == {"BTC", "ETH"}

\* new Date(s).getTime() for the date strings of the model, in days; a string
\* that is no date gives an invalid Date (NaN).
DateOf(s) ==
    CASE s = "2024-01-01" -> [valid |-> TRUE, t |-> 1]
      [] s = "2024-01-01T00:00:00.000Z" -> [valid |-> TRUE, t |-> 1]
      [] s = "2024-01-02" -> [valid |-> TRUE, t |-> 2]
      [] OTHER -> [valid |-> FALSE, t |-> 0]

\* Mutation of DateGT: a >= b, which replaces on an equal date too.
DateGE(a, b) == a.valid /\ b.valid /\ a.t >= b.t

\* a > b on two Dates (a comparison with an invalid Date is false).
DateGT(a, b) == a.valid /\ b.valid /\ a.t > b.t

Entry(item) == [currency |-> item.currency, price |-> item.price, date |-> item.date]

\* Map.get on an insertion-ordered Map held as a sequence of entries:
\* the position of the key, 0 when absent.
MapIndex(m, key) ==
    IF \E i \in 1..Len(m) : m[i].currency = key
    THEN CHOOSE i \in 1..Len(m) : m[i].currency = key
    ELSE 0

\* The body of data.forEach: one observation folded into latestPrices.
Visit(latestPrices, item) ==
    LET i == MapIndex(latestPrices, item.currency)
    IN  IF i = 0 THEN Append(latestPrices, Entry(item))
        ELSE IF DateGT(DateOf(item.date), DateOf(latestPrices[i].date))
        THEN [latestPrices EXCEPT ![i] = Entry(item)]
        ELSE latestPrices

RECURSIVE ForEach(_, _)
ForEach(latestPrices, items) ==
    IF items = <<>> THEN latestPrices
    ELSE ForEach(Visit(latestPrices, Head(items)), Tail(items))

\* Mutation of getLatestTokenPrices: every observation kept, no reduction.
getRawPrices(items) == [i \in 1..Len(items) |-> Entry(items[i])]

\* The entries of the Map in insertion order.
getLatestTokenPrices(items) == ForEach(<<>>, items)

\* currencyPrices.get(c): <<>> is undefined, <<p>> the price.
currencyPricesGet(c) ==
    LET i == MapIndex(availableCurrencies, c)
    IN  IF i = 0 THEN <<>> ELSE <<availableCurrencies[i].price>>

\* ------------------------------------------------------------ amount input
\* Mutation of RegexTest: /^[\d.]*$/, any number of points.
RegexTestAnyDots(value) ==
    \A i \in 1..Len(value) : value[i] \in Digits \cup {"."}

\* /^\d*\.?\d*$/.test(value) || value === ''
RegexTest(value) ==
    LET n1 == CountDigits(value, 1)
        p == IF 1 + n1 <= Len(value) /\ value[1 + n1] = "." THEN 2 + n1 ELSE 1 + n1
        n2 == CountDigits(value, p)
    IN  p + n2 = Len(value) + 1 \/ value = <<>>

\* --------------------------------------------------------------- recompute
FractionDigits == 6
MsgUnavailable == "Exchange rate not available for selected currencies."
MsgInvalidAmount == "Please enter a valid amount to send."

\* Mutation of ShowUnavailable: the message set without the guard.
ShowUnavailableAlways(from, to, isLoading) == TRUE

\* The guard of the 'not available' message: fromCurrency && toCurrency && !loading
ShowUnavailable(from, to, isLoading) == from # "" /\ to # "" /\ ~isLoading

\* Mutation of RateOf: fromPrice / toPrice.
RateOfSwapped(fromPrice, toPrice) == DivSwapped(Num(toPrice, 1), Num(fromPrice, 1))

\* const rate = toPrice / fromPrice
RateOf(fromPrice, toPrice) == Div(Num(toPrice, 1), Num(fromPrice, 1))

\* Mutation of AmountOk: amount >= 0.
AmountOkOrZero(amount) == ~isNaN(amount) /\ amount.n >= 0

\* !isNaN(amount) && amount > 0
AmountOk(amount) == ~isNaN(amount) /\ GreaterThanZero(amount)

\* What one run of the effect leaves in exchangeRate, toAmount and error.
Derived(from, to, amountText, isLoading) ==
    LET fromPrice == currencyPricesGet(from)
        toPrice == currencyPricesGet(to)
    IN  IF fromPrice = <<>> \/ toPrice = <<>>
        THEN [exchangeRate |-> Null, toAmount |-> <<>>,
              error |-> IF ShowUnavailable(from, to, isLoading)
                        THEN MsgUnavailable ELSE ""]
        ELSE LET amount == parseFloat(amountText)
                 rate == RateOf(fromPrice[1], toPrice[1])
             IN  IF AmountOk(amount)
                 THEN [exchangeRate |-> rate,
                       toAmount |-> toFixed(Mul(amount, rate), FractionDigits),
                       error |-> ""]
                 ELSE [exchangeRate |-> rate, toAmount |-> <<>>,
                       error |-> MsgInvalidAmount]

\* Mutation of Recompute: without the setError('') that opens the effect, a
\* conversion leaves the earlier message in place.
RecomputeKeepsError ==
    /\ effectPending
    /\ LET r == Derived(fromCurrency, toCurrency, fromAmount, loading)
       IN  /\ exchangeRate' = r.exchangeRate
           /\ toAmount' = r.toAmount
           /\ error' = IF r.error = "" THEN error ELSE r.error
    /\ effectPending' = FALSE
    /\ UNCHANGED <<pc, availableCurrencies, loading, fetchError, fromCurrency,
                   toCurrency, fromAmount>>

\* The effect on [fromCurrency, toCurrency, fromAmount, currencyPrices, loading].
Recompute ==
    /\ effectPending
    /\ LET r == Derived(fromCurrency, toCurrency, fromAmount, loading)
       IN  /\ exchangeRate' = r.exchangeRate
           /\ toAmount' = r.toAmount
           /\ error' = r.error
    /\ effectPending' = FALSE
    /\ UNCHANGED <<pc, availableCurrencies, loading, fetchError, fromCurrency,
                   toCurrency, fromAmount>>

\* --------------------------------------------------------------------- App
\* The state after the first render: its effects run in one flush, the first
\* has called fetchData, which awaits fetch(), and the recompute effect is next.
Init ==
    /\ pc = "fetch"
    /\ availableCurrencies = <<>>
    /\ loading = TRUE
    /\ fetchError = <<>>
    /\ fromCurrency = ""
    /\ toCurrency = ""
    /\ fromAmount = <<"1", ".", "0">>
    /\ toAmount = <<>>
    /\ exchangeRate = Null
    /\ error = ""
    /\ effectPending = TRUE
    /\ data = <<>>
    /\ lastEdit = [done |-> FALSE, value |-> <<>>, prev |-> <<>>]
    /\ swapLog = <<>>

\* What the component renders.
Screen ==
    IF loading THEN "loading" ELSE IF fetchError # <<>> THEN "error" ELSE "form"

\* A user event is handled on the rendered form, after the pending effects.
FormReady == Screen = "form" /\ ~effectPending

StatusText(status) ==
    CASE status = 404 -> "404" [] status = 500 -> "500" [] OTHER -> "200"

\* Mutation of Catch: no finally block, loading is left true.
CatchKeepLoading(message) ==
    /\ fetchError' = <<"Failed to fetch currency data: " \o message>>
    /\ pc' = "done"
    /\ UNCHANGED <<loading, effectPending, availableCurrencies, fromCurrency,
                   toCurrency, fromAmount, toAmount, exchangeRate, error>>

\* The catch and finally blocks of fetchData; the two setters are applied in
\* one render (automatic batching).
Catch(message) ==
    /\ fetchError' = <<"Failed to fetch currency data: " \o message>>
    /\ loading' = FALSE
    /\ pc' = "done"
    /\ effectPending' = TRUE
    /\ UNCHANGED <<availableCurrencies, fromCurrency, toCurrency, fromAmount,
                   toAmount, exchangeRate, error>>

\* fetch() rejects: no response. A promise continuation runs after the flush
\* of the mount's effects.
FetchReject == pc = "fetch" /\ ~effectPending /\ Catch("Failed to fetch")

\* fetch() resolves with a response of the given status.
FetchResolve(status) ==
    /\ pc = "fetch"
    /\ ~effectPending
    /\ IF status \in 200..299
       THEN pc' = "json" /\ UNCHANGED <<availableCurrencies, loading, fetchError,
                 fromCurrency, toCurrency, fromAmount, toAmount, exchangeRate,
                 error, effectPending>>
       ELSE Catch("HTTP error status: " \o StatusText(status))

\* response.json() rejects: the body is no JSON.
JsonReject == pc = "json" /\ Catch("Unexpected token")

\* response.json() resolves with the observations: the rest of the try block.
JsonResolve(items) ==
    /\ pc = "json"
    /\ LET processedCurrencies == getLatestTokenPrices(items)
       IN  /\ availableCurrencies' = processedCurrencies
           /\ IF Len(processedCurrencies) > 0
              THEN /\ fromCurrency' = processedCurrencies[1].currency
                   /\ toCurrency' = IF Len(processedCurrencies) > 1
                                    THEN processedCurrencies[2].currency
                                    ELSE processedCurrencies[1].currency
              ELSE UNCHANGED <<fromCurrency, toCurrency>>
    /\ loading' = FALSE
    /\ pc' = "done"
    /\ effectPending' = TRUE
    /\ UNCHANGED <<fetchError, fromAmount, toAmount, exchangeRate, error>>

\* The currencies a picker lists (availableCurrencies, search box empty).
Candidates == {availableCurrencies[i].currency : i \in 1..Len(availableCurrencies)}

\* Mutation of SelectFrom: the picker offers a currency that is not listed.
SelectFromAny(currency) ==
    /\ FormReady
    /\ fromCurrency' = currency
    /\ effectPending' = (fromCurrency # currency)
    /\ UNCHANGED <<pc, availableCurrencies, loading, fetchError, toCurrency,
                   fromAmount, toAmount, exchangeRate, error>>

\* onSelect={setFromCurrency}
SelectFrom(currency) ==
    /\ FormReady
    /\ currency \in Candidates
    /\ fromCurrency' = currency
    /\ effectPending' = (fromCurrency # currency)
    /\ UNCHANGED <<pc, availableCurrencies, loading, fetchError, toCurrency,
                   fromAmount, toAmount, exchangeRate, error>>

\* Mutation of SelectTo: the to picker wired to setFromCurrency.
SelectToWritesFrom(currency) ==
    /\ FormReady
    /\ currency \in Candidates
    /\ fromCurrency' = currency
    /\ effectPending' = (fromCurrency # currency)
    /\ UNCHANGED <<pc, availableCurrencies, loading, fetchError, toCurrency,
                   fromAmount, toAmount, exchangeRate, error>>

\* onSelect={setToCurrency}
SelectTo(currency) ==
    /\ FormReady
    /\ currency \in Candidates
    /\ toCurrency' = currency
    /\ effectPending' = (toCurrency # currency)
    /\ UNCHANGED <<pc, availableCurrencies, loading, fetchError, fromCurrency,
                   fromAmount, toAmount, exchangeRate, error>>

\* Mutation of handleFromAmountChange: fromAmount is missing from the
\* effect's dependencies, so an edit schedules no recompute.
handleFromAmountChangeNoEffect(value) ==
    /\ FormReady
    /\ fromAmount' = IF RegexTest(value) THEN value ELSE fromAmount
    /\ UNCHANGED <<pc, availableCurrencies, loading, fetchError, fromCurrency,
                   toCurrency, toAmount, exchangeRate, error, effectPending>>

handleFromAmountChange(value) ==
    /\ FormReady
    /\ fromAmount' = IF RegexTest(value) THEN value ELSE fromAmount
    /\ effectPending' = (fromAmount' # fromAmount)
    /\ UNCHANGED <<pc, availableCurrencies, loading, fetchError, fromCurrency,
                   toCurrency, toAmount, exchangeRate, error>>

\* Mutation of SwapPair: the second setter reads the updated fromCurrency.
SwapSequential(from, to) == <<to, to>>

\* The two setters of the swap handler read the rendered values and are
\* applied in one render.
SwapPair(from, to) == <<to, from>>

handleCurrencySwap ==
    /\ FormReady
    /\ LET next == SwapPair(fromCurrency, toCurrency)
       IN  /\ fromCurrency' = next[1]
           /\ toCurrency' = next[2]
    /\ effectPending' = (fromCurrency # toCurrency)
    /\ UNCHANGED <<pc, availableCurrencies, loading, fetchError, fromAmount,
                   toAmount, exchangeRate, error>>

\* ------------------------------------------------------- inputs of the model
hist == <<data, lastEdit, swapLog>>

Statuses == {200, 404, 500}

Observation(c, p, d) == [currency |-> c, price |-> p, date |-> d]

\* The observations a feed of the App is made of: two currencies, an older
\* and a newer quote, and quotes that break the positive-price rule.
AppObservations ==
    {Observation("BTC", 50000, "2024-01-01"), Observation("BTC", 51000, "2024-01-02"),
     Observation("ETH", 3000, "2024-01-01"), Observation("BTC", 0, "2024-01-01"),
     Observation("ETH", 0, "2024-01-02")}

AppFeeds == SeqsUpTo(AppObservations, MaxFeedLen)

\* The values of the amount input's change events.
TypedTexts == SeqsUpTo({"0", "5", ".", "-"}, MaxTypedLen) \cup {<<"2">>}

\* ------------------------------------------------- the App, from its mount
TransportFails == FetchReject /\ UNCHANGED hist

Responds == \E status \in Statuses : FetchResolve(status) /\ UNCHANGED hist

BodyFails == JsonReject /\ UNCHANGED hist

BodyParsed == \E items \in AppFeeds : JsonResolve(items) /\ UNCHANGED hist

Effect == Recompute /\ UNCHANGED hist

PickFrom ==
    \E c \in Currencies : SelectFrom(c) /\ swapLog' = <<>> /\ UNCHANGED <<data, lastEdit>>

PickTo ==
    \E c \in Currencies : SelectTo(c) /\ swapLog' = <<>> /\ UNCHANGED <<data, lastEdit>>

Types == \E value \in TypedTexts : handleFromAmountChange(value) /\ UNCHANGED hist

Swaps ==
    /\ handleCurrencySwap
    /\ swapLog' = IF Len(swapLog) < 2
                  THEN Append(swapLog, <<fromCurrency, toCurrency>>)
                  ELSE <<swapLog[2], <<fromCurrency, toCurrency>>>>
    /\ UNCHANGED <<data, lastEdit>>

Next ==
    \/ TransportFails
    \/ Responds
    \/ BodyFails
    \/ BodyParsed
    \/ Effect
    \/ PickFrom
    \/ PickTo
    \/ Types
    \/ Swaps

Spec == Init /\ [][Next]_vars

\* ------------------------------------- getLatestTokenPrices as a function
\* Observations with dates that tie (two strings of one instant) or do not parse.
NormObservations ==
    [currency : Currencies, price : {3000, 51000},
     date : {"2024-01-01", "2024-01-01T00:00:00.000Z", "2024-01-02", "n/a"}]

NormFeeds == SeqsUpTo(NormObservations, MaxNormLen)

\* fetch() has resolved with an OK response whose body is any feed.
InitNorm ==
    /\ pc = "json"
    /\ availableCurrencies = <<>>
    /\ loading = TRUE
    /\ fetchError = <<>>
    /\ fromCurrency = ""
    /\ toCurrency = ""
    /\ fromAmount = <<"1", ".", "0">>
    /\ toAmount = <<>>
    /\ exchangeRate = Null
    /\ error = ""
    /\ effectPending = FALSE
    /\ data \in NormFeeds
    /\ lastEdit = [done |-> FALSE, value |-> <<>>, prev |-> <<>>]
    /\ swapLog = <<>>

Normalizes == JsonResolve(data) /\ UNCHANGED hist

NextNorm == Normalizes \/ Effect

SpecNorm == InitNorm /\ [][NextNorm]_vars

\* ------------------------------------------- the amount input as a function
ExampleFeed ==
    <<Observation("BTC", 50000, "2024-01-01"), Observation("BTC", 51000, "2024-01-02"),
      Observation("ETH", 3000, "2024-01-01")>>

\* The values a change event can carry: every short text over digits, the
\* point, a sign and letters, and the longer examples.
EventTexts ==
    SeqsUpTo({"0", "1", "2", "3", "5", ".", "-", "a", "b", "c"}, MaxTextLen)
    \cup {<<"1", ".", "2", ".", "3">>, <<"1", "2", ".", "5">>}

\* The form showing the example feed, with an amount typed earlier.
InitEdit ==
    /\ pc = "done"
    /\ availableCurrencies = getLatestTokenPrices(ExampleFeed)
    /\ loading = FALSE
    /\ fetchError = <<>>
    /\ fromCurrency = "BTC"
    /\ toCurrency = "ETH"
    /\ fromAmount \in {<<"1", ".", "0">>, <<>>, <<"5">>, <<"2", ".">>}
    /\ LET r == Derived(fromCurrency, toCurrency, fromAmount, loading)
       IN  /\ toAmount = r.toAmount
           /\ exchangeRate = r.exchangeRate
           /\ error = r.error
    /\ effectPending = FALSE
    /\ data = <<>>
    /\ lastEdit = [done |-> FALSE, value |-> <<>>, prev |-> <<>>]
    /\ swapLog = <<>>

Edits ==
    /\ ~lastEdit.done
    /\ \E value \in EventTexts :
          /\ handleFromAmountChange(value)
          /\ lastEdit' = [done |-> TRUE, value |-> value, prev |-> fromAmount]
    /\ UNCHANGED <<data, swapLog>>

NextEdit == Edits \/ Effect

SpecEdit == InitEdit /\ [][NextEdit]_vars

\* ================================================================== claims
\* The price index as the claims read it: its keys and the price of a key.
IndexKeys == {availableCurrencies[i].currency : i \in 1..Len(availableCurrencies)}

IndexPrice(c) ==
    availableCurrencies[CHOOSE i \in 1..Len(availableCurrencies) :
                            availableCurrencies[i].currency = c].price

\* The feed has loaded and the form shows the result of the last recompute.
Settled == pc = "done" /\ fetchError = <<>> /\ ~loading /\ ~effectPending

MinOf(S) == CHOOSE i \in S : \A j \in S : i <= j
MaxOf(S) == CHOOSE i \in S : \A j \in S : i >= j

\* ---- C1
IndexesOf(c) == {i \in 1..Len(data) : data[i].currency = c}

AllDatesParse == \A i \in 1..Len(data) : DateOf(data[i].date).valid

\* The observations of c whose date is the maximum among c's observations.
LatestOf(c) ==
    {i \in IndexesOf(c) :
        \A j \in IndexesOf(c) : DateOf(data[i].date).t >= DateOf(data[j].date).t}

OnePerCurrency ==
    /\ IndexKeys = {data[i].currency : i \in 1..Len(data)}
    /\ Cardinality(IndexKeys) = Len(availableCurrencies)

NormDone == pc = "done" /\ fetchError = <<>>

\* C1 as stated: one entry per distinct currency of the feed, carrying the
\* price and date of the observation with the maximum date, the LAST of them
\* in input order when several share it (feeds whose dates all parse).
C1_LastOnTie ==
    NormDone /\ AllDatesParse =>
        /\ OnePerCurrency
        /\ \A k \in 1..Len(availableCurrencies) :
              availableCurrencies[k] =
                  Entry(data[MaxOf(LatestOf(availableCurrencies[k].currency))])

\* C1 amended: getLatestTokenPrices returns exactly one entry per distinct
\* currency of the feed; when the dates all parse, the entry carries the price
\* and date of the observation with the maximum date, the FIRST of them in
\* input order when several share it.
C1_FirstOnTie ==
    NormDone =>
        /\ OnePerCurrency
        /\ AllDatesParse =>
              \A k \in 1..Len(availableCurrencies) :
                  availableCurrencies[k] =
                      Entry(data[MinOf(LatestOf(availableCurrencies[k].currency))])

\* A feed was reduced in which two different observations of one currency
\* share the maximum date.
C1_Witness ==
    /\ NormDone
    /\ AllDatesParse
    /\ \E c \in IndexKeys :
          /\ Cardinality(LatestOf(c)) >= 2
          /\ Cardinality(IndexesOf(c)) > Cardinality(LatestOf(c))
          /\ data[MinOf(LatestOf(c))] # data[MaxOf(LatestOf(c))]

\* ---- C2
ExampleIndex == {<<"BTC", 51000>>, <<"ETH", 3000>>}

PricePairs(entries) == {<<entries[i].currency, entries[i].price>> : i \in 1..Len(entries)}

\* C2: the example feed reduces to {BTC: 51000, ETH: 3000}, and converting "2"
\* from BTC to ETH over that index gives rate 17 and output amount 34.
C2_EndToEnd ==
    /\ PricePairs(getLatestTokenPrices(ExampleFeed)) = ExampleIndex
    /\ (/\ Settled
        /\ PricePairs(availableCurrencies) = ExampleIndex
        /\ fromCurrency = "BTC"
        /\ toCurrency = "ETH"
        /\ fromAmount = <<"2">>)
       => /\ exchangeRate = Num(17, 1)
          /\ toAmount = <<"3", "4", ".", "0", "0", "0", "0", "0", "0">>
          /\ error = ""

\* ---- C3
BothInIndex == fromCurrency \in IndexKeys /\ toCurrency \in IndexKeys

\* The amount text parses to a number greater than zero.
AmountPositive == LET a == parseFloat(fromAmount) IN a.k \in {"fin", "inf"} /\ a.n > 0

\* x is the quotient p / q of two prices, as IEEE division gives it.
IsQuotient(x, p, q) ==
    IF q # 0 THEN x.k = "fin" /\ x.d > 0 /\ x.n * q = p * x.d
    ELSE x.d = 0 /\ x.n = Sign(p) /\ x.k = (IF p = 0 THEN "nan" ELSE "inf")

\* A text of digits, a point and exactly FractionDigits digits.
IsFixedText(t) ==
    /\ Len(t) >= FractionDigits + 2
    /\ t[Len(t) - FractionDigits] = "."
    /\ \A i \in 1..Len(t) : i # Len(t) - FractionDigits => t[i] \in Digits

\* C3: after a recompute with both selected currencies in the index and an
\* amount text that parses to a number greater than zero, rate is
\* price(to) / price(from), toAmount is the formatting of amount x rate, and
\* error is empty.
C3_Converted ==
    Settled /\ BothInIndex /\ AmountPositive =>
        /\ IsQuotient(exchangeRate, IndexPrice(toCurrency), IndexPrice(fromCurrency))
        /\ toAmount = toFixed(Mul(parseFloat(fromAmount), exchangeRate), FractionDigits)
        /\ (IndexPrice(fromCurrency) # 0 => IsFixedText(toAmount))
        /\ error = ""

\* "2" converted between two different currencies with positive prices.
C3_Witness ==
    /\ Settled
    /\ fromCurrency = "BTC"
    /\ toCurrency = "ETH"
    /\ PricePairs(availableCurrencies) = ExampleIndex
    /\ fromAmount = <<"2">>
    /\ exchangeRate = Num(1, 17)
    /\ toAmount = <<"0", ".", "1", "1", "7", "6", "4", "7">>

\* ---- C4
\* C4 as stated: with both currencies in the index and an amount text that
\* does not parse to a number greater than zero, rate is cleared, toAmount is
\* empty and error is not empty.
C4_RateCleared ==
    Settled /\ BothInIndex /\ ~AmountPositive =>
        exchangeRate = Null /\ toAmount = <<>> /\ error # ""

\* C4 amended: with both currencies in the index and an amount text that does
\* not parse to a number greater than zero, toAmount is empty and error is
\* not empty, while rate is NOT cleared: it holds price(to) / price(from).
C4_RateKept ==
    Settled /\ BothInIndex /\ ~AmountPositive =>
        /\ exchangeRate # Null
        /\ IsQuotient(exchangeRate, IndexPrice(toCurrency), IndexPrice(fromCurrency))
        /\ toAmount = <<>>
        /\ error # ""

\* The amount "0" between two currencies of the index.
C4_Witness ==
    /\ Settled
    /\ BothInIndex
    /\ fromCurrency # toCurrency
    /\ fromAmount = <<"0">>
    /\ error = MsgInvalidAmount

\* ---- C5
\* C5 as stated: once the feed has loaded, a selected currency that is no key
\* of the index leaves rate absent, toAmount empty and error not empty, the
\* empty index included.
C5_ErrorAlways ==
    Settled /\ ~BothInIndex =>
        exchangeRate = Null /\ toAmount = <<>> /\ error # ""

\* C5 amended: once the feed has loaded, a selected currency that is no key of
\* the index leaves rate absent and toAmount empty, and error is not empty
\* exactly when both selected currencies are not empty; with the empty index
\* both stay empty and error stays empty.
C5_ErrorWhenSelected ==
    Settled /\ ~BothInIndex =>
        /\ exchangeRate = Null
        /\ toAmount = <<>>
        /\ (error # "" <=> (fromCurrency # "" /\ toCurrency # ""))
        /\ (availableCurrencies = <<>> =>
                fromCurrency = "" /\ toCurrency = "" /\ error = "")

\* The empty feed has loaded and the effect has run.
C5_Witness ==
    /\ Settled
    /\ availableCurrencies = <<>>
    /\ ~BothInIndex
    /\ Screen = "form"

\* ---- C6
\* Zero or more digits, optionally one point, zero or more digits.
IsDecimalText(t) ==
    /\ \A i \in 1..Len(t) : t[i] \in Digits \cup {"."}
    /\ Cardinality({i \in 1..Len(t) : t[i] = "."}) <= 1

\* C6: the amount input adopts the candidate exactly when it is digits with
\* at most one point; otherwise fromAmount keeps its value.
C6_AdoptsDecimal ==
    lastEdit.done =>
        fromAmount = IF IsDecimalText(lastEdit.value) THEN lastEdit.value
                     ELSE lastEdit.prev

\* "1.2.3" was typed over "5" and "5" stayed.
C6_Witness ==
    /\ lastEdit.done
    /\ lastEdit.value = <<"1", ".", "2", ".", "3">>
    /\ lastEdit.prev = <<"5">>
    /\ fromAmount = <<"5">>
    /\ ~effectPending

\* ---- C7
\* C7: a swap exchanges fromCurrency and toCurrency in one step, so they are
\* equal after it only if they were equal before it, and two swaps in a row
\* restore the pair.
C7_SwapInvolution ==
    /\ Len(swapLog) >= 1 =>
          LET before == swapLog[Len(swapLog)]
          IN  /\ fromCurrency = before[2]
              /\ toCurrency = before[1]
              /\ (fromCurrency = toCurrency => before[1] = before[2])
    /\ Len(swapLog) = 2 => <<fromCurrency, toCurrency>> = swapLog[1]

\* Two swaps in a row of two different currencies.
C7_Witness ==
    /\ Len(swapLog) = 2
    /\ swapLog[1][1] # swapLog[1][2]
    /\ swapLog[2] = <<swapLog[1][2], swapLog[1][1]>>
    /\ ~effectPending

\* ---- C8
\* C8: converting "5" from a currency of the index to itself gives rate
\* exactly 1 and output amount 5, whatever price is stored for it.
C8_SameCurrency ==
    (/\ Settled
     /\ fromCurrency \in IndexKeys
     /\ toCurrency = fromCurrency
     /\ fromAmount = <<"5">>)
    => /\ exchangeRate = Num(1, 1)
       /\ toAmount = <<"5", ".", "0", "0", "0", "0", "0", "0">>

\* ---- C9
\* C9: with a price of 0 stored for fromCurrency, recompute ends in the error
\* outcome (error set, rate and toAmount cleared) and stores no infinite or
\* not-a-number rate or amount.
C9_ZeroPriceIsError ==
    Settled /\ BothInIndex /\ IndexPrice(fromCurrency) = 0 =>
        /\ error # ""
        /\ exchangeRate = Null
        /\ toAmount = <<>>

\* ---- C10
FetchFailed == pc = "done" /\ fetchError # <<>>

\* C10 as stated: after a failed fetch the component stays in Loading.
C10_StaysLoading == FetchFailed => loading

\* C10 amended: when the fetch fails, loading becomes false and stays false,
\* the static message in fetchError is shown in place of the form, the index
\* stays empty, and the fetch is never retried.
C10_FailedShowsError ==
    /\ [](FetchFailed =>
            /\ ~loading
            /\ Screen = "error"
            /\ availableCurrencies = <<>>
            /\ fromCurrency = "" /\ toCurrency = "")
    /\ [][FetchFailed =>
            /\ pc' = "done"
            /\ fetchError' = fetchError
            /\ loading' = loading]_vars

\* The fetch has failed and the effect that followed has run.
C10_Witness ==
    /\ FetchFailed
    /\ ~loading
    /\ ~effectPending
    /\ Screen = "error"
    /\ exchangeRate = Null

\* ---- C11
\* The first currency of the feed other than that of its first observation,
\* or that one when the feed holds no other.
SecondCurrency ==
    LET others == {i \in 1..Len(data) : data[i].currency # data[1].currency}
    IN  IF others = {} THEN data[1].currency ELSE data[MinOf(others)].currency

DefaultsSet ==
    /\ fromCurrency = availableCurrencies[1].currency
    /\ fromCurrency = data[1].currency
    /\ toCurrency = SecondCurrency
    /\ Len(availableCurrencies) = 1 => toCurrency = fromCurrency
    /\ Len(availableCurrencies) >= 2 =>
          toCurrency = availableCurrencies[2].currency /\ toCurrency # fromCurrency

\* C11 as stated: a non-empty feed sets fromCurrency to the first currency of
\* the index and toCurrency to the second, or to the same one when the index
\* holds one currency; with three or more observations the two differ.
C11_ThreeObservationsDiffer ==
    NormDone /\ data # <<>> =>
        /\ DefaultsSet
        /\ Len(data) >= 3 => fromCurrency # toCurrency

\* C11 amended: a non-empty feed sets fromCurrency to the first currency of
\* the index and toCurrency to the second, or to the same one when the index
\* holds one currency; the two differ exactly when the feed holds two or more
\* distinct currencies, however many observations it has.
C11_DistinctCurrenciesDiffer ==
    NormDone /\ data # <<>> =>
        /\ DefaultsSet
        /\ fromCurrency # toCurrency
              <=> Cardinality({data[i].currency : i \in 1..Len(data)}) >= 2

\* A feed whose first two observations repeat one currency, the third another.
C11_Witness ==
    /\ NormDone
    /\ Len(data) = 3
    /\ data[1].currency = data[2].currency
    /\ data[3].currency # data[1].currency
    /\ fromCurrency = data[1].currency
    /\ toCurrency = data[3].currency

\* ---- C12
\* The dependencies of the recompute effect and the fields it derives.
Inputs == <<fromCurrency, toCurrency, fromAmount, availableCurrencies, loading>>

DerivedFields == [exchangeRate |-> exchangeRate, toAmount |-> toAmount, error |-> error]

DerivedNow == Derived(fromCurrency, toCurrency, fromAmount, loading)

\* C12 as stated: no state the form renders holds inputs together with
\* derived fields computed from older inputs.
C12_NeverStale == Screen = "form" => DerivedFields = DerivedNow

\* C12 amended: a mutation of an input leaves the derived fields as they were
\* and schedules one recompute, so the render in between holds the new inputs
\* with the old derived fields; the recompute then sets the three derived
\* fields together to the values of the current inputs, and no input changes
\* while a recompute is pending.
C12_OneRecomputePerMutation ==
    /\ [](~effectPending => DerivedFields = DerivedNow)
    /\ [][/\ Inputs' # Inputs =>
                /\ ~effectPending
                /\ effectPending'
                /\ DerivedFields' = DerivedFields
          /\ DerivedFields' # DerivedFields =>
                /\ effectPending
                /\ ~effectPending'
                /\ Inputs' = Inputs
                /\ DerivedFields' = DerivedNow]_vars

\* The form rendered after "2" was typed and before the recompute has run.
C12_Witness ==
    /\ Screen = "form"
    /\ effectPending
    /\ fromAmount = <<"2">>
    /\ toAmount # <<>>
    /\ DerivedFields # DerivedNow

\* ---- C13
\* C13: while loading is true the loading screen is shown, the recompute that
\* runs leaves rate absent and toAmount and error empty, and no step changes
\* the selected currencies, the amount or the derived fields.
C13_LoadingIsIdle ==
    /\ [](loading =>
            /\ Screen = "loading"
            /\ exchangeRate = Null
            /\ toAmount = <<>>
            /\ error = ""
            /\ fromCurrency = ""
            /\ toCurrency = "")
    /\ [][loading /\ loading' =>
            UNCHANGED <<fromCurrency, toCurrency, fromAmount, toAmount,
                        exchangeRate, error, availableCurrencies>>]_vars

\* The recompute of the mount has run and the response is awaited.
C13_Witness ==
    /\ loading
    /\ ~effectPending
    /\ pc = "json"
    /\ DerivedFields = DerivedNow
    /\ error = ""

\* ---- C14
\* C14: a pick of the from currency changes fromCurrency only, a pick of the
\* to currency toCurrency only, an edit fromAmount only, a swap the two
\* currencies only; a rejected edit changes nothing, not even the pending
\* recompute; and toAmount changes only in a step of the recompute effect.
C14_MutatorsWriteOwnField ==
    [][/\ (\E c \in Currencies : SelectFrom(c)) =>
              UNCHANGED <<toCurrency, fromAmount, toAmount, exchangeRate, error>>
       /\ (\E c \in Currencies : SelectTo(c)) =>
              UNCHANGED <<fromCurrency, fromAmount, toAmount, exchangeRate, error>>
       /\ (\E v \in TypedTexts : handleFromAmountChange(v)) =>
              UNCHANGED <<fromCurrency, toCurrency, toAmount, exchangeRate, error>>
       /\ (\E v \in TypedTexts : ~IsDecimalText(v) /\ handleFromAmountChange(v)) =>
              UNCHANGED <<fromCurrency, toCurrency, fromAmount, toAmount,
                          exchangeRate, error, effectPending>>
       /\ handleCurrencySwap =>
              UNCHANGED <<fromAmount, toAmount, exchangeRate, error>>
       /\ toAmount' # toAmount => effectPending /\ ~effectPending'
                                  /\ UNCHANGED <<fromCurrency, toCurrency, fromAmount>>
      ]_vars

\* After an edit and its recompute a swap has run: the amounts are untouched
\* and the recompute is pending.
C14_Witness ==
    /\ Len(swapLog) >= 1
    /\ effectPending
    /\ fromCurrency # toCurrency
    /\ fromAmount = <<"5">>
    /\ toAmount # <<>>
    /\ toAmount # DerivedNow.toAmount

\* ---- C15
\* C15: once a non-empty feed has loaded, fromCurrency and toCurrency are keys
\* of the index in every state, and the 'not available' message is never set.
C15_SelectedAreKeys ==
    pc = "done" /\ fetchError = <<>> /\ availableCurrencies # <<>> =>
        /\ fromCurrency \in IndexKeys
        /\ toCurrency \in IndexKeys
        /\ error # MsgUnavailable

\* With two currencies loaded, a pick has made both sides the same currency.
C15_Witness ==
    /\ Settled
    /\ Len(availableCurrencies) = 2
    /\ fromCurrency = toCurrency
    /\ fromCurrency \in IndexKeys
    /\ fromAmount # <<"1", ".", "0">>

\* ---- C16
\* C16: a non-empty toAmount and a non-empty error never hold together.
C16_AmountOrError == ~(toAmount # <<>> /\ error # "")

\* An invalid amount was followed by a valid one: the message is gone and the
\* converted amount is shown.
C16_Witness ==
    /\ Settled
    /\ Len(swapLog) = 2
    /\ fromAmount = <<"5">>
    /\ toAmount # <<>>
    /\ error = ""
    /\ IndexPrice(fromCurrency) # 0

====
